---- MODULE Spec2Model ----
(***************************************************************************)
(* textrek (src/tt.go): the line-oriented song builder of processFile and  *)
(* the file loop of main.                                                  *)
(*                                                                         *)
(* A line is a sequence of one-character strings.  A float64 is the exact  *)
(* rational [n, d] in lowest terms (d = 0: +Inf when n = 1, NaN when       *)
(* n = 0); on the values the bounded inputs produce, truncating the exact  *)
(* product gives the integer that truncating the float64 product gives.    *)
(* A *Track is an index into heap (0 is nil).  A nil slice is << >>: the   *)
(* code only ever tests a slice against nil, and append never returns an   *)
(* empty slice.                                                            *)
(***************************************************************************)
EXTENDS Integers, Sequences, FiniteSets, TLC

VARIABLES
    bpm, sr, steps, step,    \* the package-level defaults (tt.go 17-22)
    song, pattern, track,    \* the locals of processFile (tt.go 107-109)
    heap,                    \* the Track objects allocated by processFile
    input, pos,              \* the lines of the open file, the scanner's position
    pc, err,                 \* where the process is, and the error returned
    fileNo,                  \* the index of flag.Args() main is at
    entry,                   \* history: the defaults when processFile was entered
    binds,                   \* history: the processor directives that succeeded
    songSamples, writePos,   \* the song buffer and the write offset (tt.go 216-217)
    samples,                 \* the scratch buffer of the last pattern rendered
    rp,                      \* the index of the pattern the mixing loop is at
    wav                      \* what writeWav handed to the encoder

mix == <<songSamples, writePos, samples, rp, wav>>

vars == <<bpm, sr, steps, step, song, pattern, track, heap, input, pos, pc, err,
          fileNo, entry, binds, mix>>

-----------------------------------------------------------------------------
(* Bounds *)

MaxLines == 4
MaxLaterLines == 1
MaxFiles == 2

-----------------------------------------------------------------------------
(* float64 and the strconv conversions *)

RECURSIVE GCD(_, _)
GCD(a, b) == IF b = 0 THEN a ELSE GCD(b, a % b)

Frac(n, d) ==
    IF d = 0 THEN [n |-> IF n = 0 THEN 0 ELSE 1, d |-> 0]
    ELSE LET g == GCD(n, d) IN [n |-> n \div g, d |-> d \div g]

Digits == <<"0", "1", "2", "3", "4", "5", "6", "7", "8", "9">>

IsDigit(c) == \E i \in 1..10 : Digits[i] = c

DigitValue(c) == (CHOOSE i \in 1..10 : Digits[i] = c) - 1

RECURSIVE DecimalValue(_)
DecimalValue(s) ==
    IF s = << >> THEN 0
    ELSE 10 * DecimalValue(SubSeq(s, 1, Len(s) - 1)) + DigitValue(s[Len(s)])

IsDecimal(s) == Len(s) > 0 /\ \A i \in 1..Len(s) : IsDigit(s[i])

\* strconv.ParseInt(s, 10, 64) on the unsigned decimal tokens of the inputs
ParseInt(s) ==
    IF IsDecimal(s) THEN [ok |-> TRUE, value |-> DecimalValue(s)]
    ELSE [ok |-> FALSE, value |-> 0]

\* strconv.ParseFloat(s, 64) on the same tokens
ParseFloat(s) ==
    IF IsDecimal(s) THEN [ok |-> TRUE, value |-> Frac(DecimalValue(s), 1)]
    ELSE [ok |-> FALSE, value |-> Frac(0, 1)]

IndexByte(s, c) ==
    IF \E i \in 1..Len(s) : s[i] = c
    THEN CHOOSE i \in 1..Len(s) : s[i] = c /\ \A j \in 1..(i - 1) : s[j] # c
    ELSE 0

parseFloat(s) ==
    LET slashIndex == IndexByte(s, "/") IN
    IF slashIndex = 0 THEN ParseFloat(s)
    ELSE LET nom == ParseFloat(SubSeq(s, 1, slashIndex - 1))
             denom == ParseFloat(SubSeq(s, slashIndex + 1, Len(s)))
         IN IF ~nom.ok THEN [ok |-> FALSE, value |-> Frac(0, 1)]
            ELSE IF ~denom.ok THEN [ok |-> FALSE, value |-> Frac(0, 1)]
            ELSE [ok |-> TRUE,
                  value |-> Frac(nom.value.n * denom.value.d,
                                 nom.value.d * denom.value.n)]

-----------------------------------------------------------------------------
(* The four regular expressions.  A match is the tuple of its groups, an   *)
(* unmatched optional group is the empty string, no match is << >>.        *)

\* \s, over the characters a scanned line of the inputs can hold
IsSpace(c) == c \in {" ", "\t"}

HasPrefix(s, p) == Len(s) >= Len(p) /\ SubSeq(s, 1, Len(p)) = p

Keywords == << <<"b", "p", "m">>, <<"s", "r">>,
               <<"s", "t", "e", "p", "s">>, <<"s", "t", "e", "p">> >>

\* the index after the longest run of white space that starts at i and
\* leaves at least one character for the group that follows
RECURSIVE SkipSpace(_, _)
SkipSpace(s, i) ==
    IF i < Len(s) /\ IsSpace(s[i]) THEN SkipSpace(s, i + 1) ELSE i

GlobalWith(line, kw) ==
    /\ HasPrefix(line, kw)
    /\ Len(line) >= Len(kw) + 2
    /\ IsSpace(line[Len(kw) + 1])

\* ^(bpm|sr|steps|step)\s+(.+)$
setGlobalPattern(line) ==
    IF \E k \in 1..4 : GlobalWith(line, Keywords[k])
    THEN LET k == CHOOSE k \in 1..4 :
                      /\ GlobalWith(line, Keywords[k])
                      /\ \A j \in 1..(k - 1) : ~GlobalWith(line, Keywords[j])
             kw == Keywords[k]
         IN <<kw, SubSeq(line, SkipSpace(line, Len(kw) + 2), Len(line))>>
    ELSE << >>

\* ^([:+])([^:]+)?(?::(.+))?$
setProcessorPattern(line) ==
    IF Len(line) >= 1 /\ line[1] \in {":", "+"}
    THEN LET rest == Tail(line)
             colon == IndexByte(rest, ":")
         IN IF colon = 0 THEN <<line[1], rest, << >> >>
            ELSE IF colon = Len(rest) THEN << >>
            ELSE <<line[1], SubSeq(rest, 1, colon - 1),
                   SubSeq(rest, colon + 1, Len(rest))>>
    ELSE << >>

\* ^(.)(.+)$
setDataPattern(line) ==
    IF Len(line) >= 2 THEN <<SubSeq(line, 1, 1), Tail(line)>> ELSE << >>

\* ^\s+$
emptyLinePattern(line) ==
    Len(line) >= 1 /\ \A i \in 1..Len(line) : IsSpace(line[i])

-----------------------------------------------------------------------------
(* The processor registry *)

NilProc == "nil"
NoErr == "nil"

basicSynthFactory(args) == [proc |-> NilProc, err |-> NoErr]

BasicName == <<"b", "a", "s", "i", "c">>

processorFactories == {BasicName}

\* calling the factory value stored under a registered name
CallFactory(factory, args) == basicSynthFactory(args)

-----------------------------------------------------------------------------
(* One iteration of the scanner loop, as a function of the state           *)
(* s = [bpm, sr, steps, step, song, pattern, track, heap, err, brk].       *)

NilTrack == 0

\* a reset that leaves the track cursor on the last track
SongResetKeepsTrack(s) == [s EXCEPT !.song = << >>, !.pattern = << >>]

\* line == ">>"
SongReset(s) ==
    [s EXCEPT !.song = << >>, !.pattern = << >>, !.track = NilTrack]

\* a song end that does not leave the loop
SongEndContinues(s) == s

\* line == "<<"
SongEnd(s) == [s EXCEPT !.brk = TRUE]

\* a steps case that also writes the step length
SetGlobalStepsAlsoStep(s, matches) ==
    LET option == matches[1] IN
    IF option = Keywords[1] THEN
        LET r == parseFloat(matches[2]) IN
        IF ~r.ok THEN [s EXCEPT !.err = "Cannot parse bpm value"]
        ELSE [s EXCEPT !.bpm = r.value]
    ELSE IF option = Keywords[2] THEN
        LET r == ParseInt(matches[2]) IN
        IF ~r.ok THEN [s EXCEPT !.err = "Cannot parse sr value"]
        ELSE [s EXCEPT !.sr = r.value]
    ELSE IF option = Keywords[3] THEN
        LET r == ParseInt(matches[2]) IN
        IF ~r.ok THEN [s EXCEPT !.err = "Cannot parse steps value"]
        ELSE [s EXCEPT !.steps = r.value, !.step = Frac(r.value, 1)]
    ELSE
        LET r == parseFloat(matches[2]) IN
        IF ~r.ok THEN [s EXCEPT !.err = "Cannot parse step value"]
        ELSE [s EXCEPT !.step = r.value]

\* the switch on the option of a global-setting line
SetGlobal(s, matches) ==
    LET option == matches[1] IN
    IF option = Keywords[1] THEN
        LET r == parseFloat(matches[2]) IN
        IF ~r.ok THEN [s EXCEPT !.err = "Cannot parse bpm value"]
        ELSE [s EXCEPT !.bpm = r.value]
    ELSE IF option = Keywords[2] THEN
        LET r == ParseInt(matches[2]) IN
        IF ~r.ok THEN [s EXCEPT !.err = "Cannot parse sr value"]
        ELSE [s EXCEPT !.sr = r.value]
    ELSE IF option = Keywords[3] THEN
        LET r == ParseInt(matches[2]) IN
        IF ~r.ok THEN [s EXCEPT !.err = "Cannot parse steps value"]
        ELSE [s EXCEPT !.steps = r.value]
    ELSE
        LET r == parseFloat(matches[2]) IN
        IF ~r.ok THEN [s EXCEPT !.err = "Cannot parse step value"]
        ELSE [s EXCEPT !.step = r.value]

\* the branch for an empty name: the track object is appended to the
\* pattern and then written through the same pointer
ReuseProcessor(s, clear, matches) ==
    IF s.track = NilTrack
    THEN [s EXCEPT !.err = "attempt to reuse a processor which has not been defined"]
    ELSE LET r == CallFactory(s.heap[s.track].factory, matches[3]) IN
         IF r.err # NoErr THEN [s EXCEPT !.err = "cannot instantiate processor"]
         ELSE [s EXCEPT !.pattern = Append(s.pattern, s.track),
                        !.heap[s.track].proc = r.proc,
                        !.heap[s.track].data = {},
                        !.heap[s.track].bpm = s.bpm,
                        !.heap[s.track].step = s.step,
                        !.heap[s.track].steps = s.steps]

\* the branch for a registered name
NewProcessor(s, clear, matches) ==
    LET name == matches[2]
        r == CallFactory(name, matches[3])
    IN IF r.err # NoErr THEN [s EXCEPT !.err = "cannot instantiate processor"]
       ELSE [s EXCEPT
               !.pattern = IF s.track # NilTrack THEN Append(s.pattern, s.track)
                           ELSE s.pattern,
               !.track = Len(s.heap) + 1,
               !.heap = Append(s.heap, [factory |-> name,
                                        proc |-> r.proc,
                                        clear |-> clear,
                                        data |-> {},
                                        bpm |-> s.bpm,
                                        step |-> s.step,
                                        steps |-> s.steps])]

SetProcessor(s, matches) ==
    LET clear == ~(matches[1] = "+")
        name == matches[2]
    IN IF name = << >> THEN ReuseProcessor(s, clear, matches)
       ELSE IF name \in processorFactories THEN NewProcessor(s, clear, matches)
       ELSE [s EXCEPT !.err = "unknown processor"]

\* track.data[code] = data
SetData(s, matches) ==
    IF s.track = NilTrack THEN [s EXCEPT !.err = "data line without track"]
    ELSE LET code == matches[1][1]
             data == matches[2]
         IN [s EXCEPT !.heap[s.track].data =
                 {e \in @ : e[1] # code} \cup {<<code, data>>}]

\* the pattern separator; also the code after the loop
ClosePattern(s) ==
    IF s.pattern # << >>
    THEN [s EXCEPT !.song = Append(s.song, s.pattern),
                   !.pattern = << >>, !.track = NilTrack]
    ELSE s

processLine(s, line) ==
    IF line = <<">", ">">> THEN SongReset(s)
    ELSE IF line = <<"<", "<">> THEN SongEnd(s)
    ELSE IF setGlobalPattern(line) # << >> THEN SetGlobal(s, setGlobalPattern(line))
    ELSE IF setProcessorPattern(line) # << >>
         THEN SetProcessor(s, setProcessorPattern(line))
    ELSE IF setDataPattern(line) # << >> THEN SetData(s, setDataPattern(line))
    ELSE IF emptyLinePattern(line) THEN ClosePattern(s)
    ELSE s

-----------------------------------------------------------------------------
(* The input files: every sequence of lines, up to the bound, over one of  *)
(* four alphabets.                                                         *)

LReset == <<">", ">">>
LEnd == <<"<", "<">>
LBpm == <<"b", "p", "m", " ", "1", "4", "0">>
LBadBpm == <<"b", "p", "m", " ", "x">>
LSr == <<"s", "r", " ", "1", "1", "0", "2", "5">>
LSteps == <<"s", "t", "e", "p", "s", " ", "8">>
LStep == <<"s", "t", "e", "p", " ", "1", "/", "2">>
LNamed == <<":", "b", "a", "s", "i", "c">>
LNamedAcc == <<"+", "b", "a", "s", "i", "c">>
LReuse == <<":">>
LReuseAcc == <<"+">>
LUnknown == <<":", "x">>
LData == <<"a", "b">>
LEmpty == << >>
LSpace == <<" ">>
LSpaces == <<" ", " ">>
LNamedArgs == <<":", "b", "a", "s", "i", "c", ":", "x">>
LNamedColon == <<":", "b", "a", "s", "i", "c", ":">>
LColons == <<":", ":">>

StructureLines == {LReset, LEnd, LNamed, LReuseAcc, LData, LSpace, LBpm}
BlankLines == {LNamed, LNamedAcc, LReuse, LData, LEmpty, LSpace, LSpaces}
SettingLines == {LBadBpm, LSr, LSteps, LStep, LNamed, LEnd, LUnknown}
ProcessorLines == {LNamed, LNamedArgs, LNamedColon, LColons, LReuseAcc, LData, LSpace}

SeqsUpTo(A, n) == UNION {[1..k -> A] : k \in 0..n}

FilesUpTo(n) ==
    SeqsUpTo(StructureLines, n) \cup SeqsUpTo(BlankLines, n)
        \cup SeqsUpTo(SettingLines, n) \cup SeqsUpTo(ProcessorLines, n)

Files(k) == IF k = 1 THEN FilesUpTo(MaxLines) ELSE FilesUpTo(MaxLaterLines)

-----------------------------------------------------------------------------
(* The timing model and the sample buffers *)

nchannels == 2

RatDiv(a, b) == Frac(a.n * b.d, a.d * b.n)

RatMul(a, b) == Frac(a.n * b.n, a.d * b.d)

\* int(x) of a float64 that is not negative truncates it
Trunc(x) == x.n \div x.d

BeatsPerSecond(t) == RatDiv(t.bpm, Frac(60, 1))

\* a sample rate fixed when the file was opened
SamplesPerBeatAtEntry(t) == RatDiv(Frac(entry.sr, 1), BeatsPerSecond(t))

\* float64(sr) / t.BeatsPerSecond(), with the package-level sr
SamplesPerBeat(t) == RatDiv(Frac(sr, 1), BeatsPerSecond(t))

SamplesPerStep(t) == Trunc(RatMul(SamplesPerBeat(t), t.step))

\* a frame count truncated after the multiplication by the step count
FramesTruncatedLate(t) ==
    Trunc(RatMul(RatMul(SamplesPerBeat(t), t.step), Frac(t.steps, 1)))

Frames(t) == SamplesPerStep(t) * t.steps

NewSampleBuffer == << >>

\* SampleBuffer.Clear: every element is set to 0, the length stays
ClearBuffer(buf) == [i \in 1..Len(buf) |-> 0]

\* slices.Grow(s, n) raises the capacity and returns a slice of the same
\* length and elements
Grow(buf, n) == buf

\* songSamples[writePos+i] += samples[i] for every index i of samples
AddAt(buf, at, add) ==
    [i \in 1..Len(buf) |->
        IF i > at /\ i <= at + Len(add) THEN buf[i] + add[i - at] ELSE buf[i]]

\* Track.Process: t.proc.Process(t, buf) panics on the nil interface value;
\* no type of the program implements Processor
TrackProcess(t, buf) == [panic |-> t.proc = NilProc, samples |-> buf]

\* the inner loop over the tracks of a pattern; it ends at a panic
RECURSIVE RenderTracks(_, _)
RenderTracks(r, tracks) ==
    IF tracks = << >> \/ r.panic THEN r
    ELSE LET t == heap[Head(tracks)]
             cleared == IF t.clear THEN ClearBuffer(r.samples) ELSE r.samples
             p == TrackProcess(t, cleared)
             trackFrames == Frames(t)
         IN IF p.panic THEN [r EXCEPT !.panic = TRUE, !.samples = cleared]
            ELSE RenderTracks(
                     [samples |-> p.samples,
                      patternFrames |-> IF trackFrames > r.patternFrames
                                        THEN trackFrames ELSE r.patternFrames,
                      panic |-> FALSE],
                     Tail(tracks))

\* nothing has been handed to the encoder
NoWav == [SampleRate |-> 0, NumChannels |-> 0, Data |-> << >>]

-----------------------------------------------------------------------------
(* The process *)

Defaults == [bpm |-> bpm, sr |-> sr, steps |-> steps, step |-> step]

Cur == [bpm |-> bpm, sr |-> sr, steps |-> steps, step |-> step,
        song |-> song, pattern |-> pattern, track |-> track, heap |-> heap,
        err |-> NoErr, brk |-> FALSE]

\* which branch of the loop body a line takes
Kind(line) ==
    IF line = LReset THEN "reset"
    ELSE IF line = LEnd THEN "end"
    ELSE IF setGlobalPattern(line) # << >> THEN "global"
    ELSE IF setProcessorPattern(line) # << >> THEN "processor"
    ELSE IF setDataPattern(line) # << >> THEN "data"
    ELSE IF emptyLinePattern(line) THEN "separator"
    ELSE "none"

\* var step float64 = 1 / 4 is the integer constant division 1 / 4
InitStep == Frac(1 \div 4, 1)

Init ==
    /\ bpm = Frac(120, 1)
    /\ sr = 48000
    /\ steps = 16
    /\ step = InitStep
    /\ song = << >>
    /\ pattern = << >>
    /\ track = NilTrack
    /\ heap = << >>
    /\ input = << >>
    /\ pos = 1
    /\ pc = "main"
    /\ err = NoErr
    /\ fileNo = 1
    /\ entry = [bpm |-> Frac(120, 1), sr |-> 48000, steps |-> 16, step |-> InitStep]
    /\ binds = << >>
    /\ songSamples = << >>
    /\ writePos = 0
    /\ samples = << >>
    /\ rp = 1
    /\ wav = NoWav

\* main calls processFile on the next argument; os.Open succeeds
OpenFile ==
    /\ pc = "main"
    /\ fileNo <= MaxFiles
    /\ \E f \in Files(fileNo) : input' = f
    /\ pos' = 1
    /\ song' = << >>
    /\ pattern' = << >>
    /\ track' = NilTrack
    /\ heap' = << >>
    /\ pc' = "scan"
    /\ entry' = Defaults
    /\ binds' = << >>
    /\ songSamples' = << >>
    /\ writePos' = 0
    /\ samples' = << >>
    /\ rp' = 1
    /\ wav' = NoWav
    /\ UNCHANGED <<bpm, sr, steps, step, err, fileNo>>

\* os.Open fails
OpenError ==
    /\ pc = "main"
    /\ fileNo <= MaxFiles
    /\ pc' = "exit"
    /\ err' = "open"
    /\ UNCHANGED <<bpm, sr, steps, step, song, pattern, track, heap, input, pos,
                   fileNo, entry, binds, mix>>

\* the arguments are exhausted
MainReturn ==
    /\ pc = "main"
    /\ pc' = "done"
    /\ UNCHANGED <<bpm, sr, steps, step, song, pattern, track, heap, input, pos,
                   err, fileNo, entry, binds, mix>>

\* scanner.Scan() returns a line: one iteration of the loop
ScanLine ==
    /\ pc = "scan"
    /\ pos <= Len(input)
    /\ LET line == input[pos]
           s == processLine(Cur, line)
       IN /\ bpm' = s.bpm
          /\ sr' = s.sr
          /\ steps' = s.steps
          /\ step' = s.step
          /\ song' = s.song
          /\ pattern' = s.pattern
          /\ track' = s.track
          /\ heap' = s.heap
          /\ err' = s.err
          /\ pc' = IF s.err # NoErr THEN "exit"
                   ELSE IF s.brk THEN "close" ELSE "scan"
          /\ binds' = IF Kind(line) = "processor" /\ s.err = NoErr
                      THEN Append(binds, [line |-> pos, id |-> s.track,
                                          prefix |-> line[1], bpm |-> bpm,
                                          step |-> step, steps |-> steps,
                                          sr |-> sr])
                      ELSE binds
    /\ pos' = pos + 1
    /\ UNCHANGED <<input, fileNo, entry, mix>>

\* scanner.Scan() returns false at the end of the file
ScanEOF ==
    /\ pc = "scan"
    /\ pos > Len(input)
    /\ pc' = "close"
    /\ UNCHANGED <<bpm, sr, steps, step, song, pattern, track, heap, input, pos,
                   err, fileNo, entry, binds, mix>>

\* after the loop: the open pattern is appended to the song
CloseSong ==
    /\ pc = "close"
    /\ LET s == ClosePattern(Cur)
       IN /\ song' = s.song
          /\ pattern' = s.pattern
          /\ track' = s.track
    /\ pc' = "render"
    /\ UNCHANGED <<bpm, sr, steps, step, heap, input, pos, err, fileNo, entry, binds,
                   mix>>

\* the loop body for one pattern of the song: its tracks are rendered into a
\* new scratch buffer, which is then added to the song buffer
RenderPattern ==
    /\ pc = "render"
    /\ rp <= Len(song)
    /\ LET r == RenderTracks([samples |-> NewSampleBuffer, patternFrames |-> 0,
                              panic |-> FALSE], song[rp])
           grown == Grow(songSamples, Len(r.samples))
           \* an index past the length of the song buffer panics
           outOfRange == Len(r.samples) > 0
                           /\ writePos + Len(r.samples) > Len(grown)
       IN IF r.panic \/ outOfRange
          THEN /\ pc' = "panic"
               /\ UNCHANGED <<songSamples, writePos, samples, rp>>
          ELSE /\ pc' = "render"
               /\ songSamples' = AddAt(grown, writePos, r.samples)
               /\ writePos' = writePos + r.patternFrames * nchannels
               /\ samples' = r.samples
               /\ rp' = rp + 1
    /\ UNCHANGED <<bpm, sr, steps, step, song, pattern, track, heap, input, pos,
                   err, fileNo, entry, binds, wav>>

\* after the loop: writeWav hands the song buffer to the encoder, which
\* writes the file or fails
WriteWav ==
    /\ pc = "render"
    /\ rp > Len(song)
    /\ wav' = [SampleRate |-> sr, NumChannels |-> 2, Data |-> songSamples]
    /\ \/ /\ pc' = "main"
          /\ fileNo' = fileNo + 1
          /\ UNCHANGED err
       \/ /\ pc' = "exit"
          /\ err' = "failed to write"
          /\ UNCHANGED fileNo
    /\ UNCHANGED <<bpm, sr, steps, step, song, pattern, track, heap, input, pos,
                   entry, binds, songSamples, writePos, samples, rp>>

Next ==
    \/ OpenFile
    \/ OpenError
    \/ MainReturn
    \/ ScanLine
    \/ ScanEOF
    \/ CloseSong
    \/ RenderPattern
    \/ WriteWav

Spec == Init /\ [][Next]_vars

-----------------------------------------------------------------------------
(* The loop as a function of the lines, and what the claims speak of *)

\* the loop of processFile over a sequence of lines: it stops at the first
\* error (return) and at the break
RECURSIVE RunLines(_, _)
RunLines(s, lines) ==
    IF lines = << >> \/ s.err # NoErr \/ s.brk THEN s
    ELSE RunLines(processLine(s, Head(lines)), Tail(lines))

\* the state processFile returns an error from, or renders
Finish(s) == IF s.err # NoErr THEN s ELSE ClosePattern(s)

\* processFile's state before the first line, under the given defaults
Fresh(d) == [bpm |-> d.bpm, sr |-> d.sr, steps |-> d.steps, step |-> d.step,
             song |-> << >>, pattern |-> << >>, track |-> NilTrack,
             heap |-> << >>, err |-> NoErr, brk |-> FALSE]

\* a song with every track pointer replaced by the track it points to
Deref(sg, hp) == [p \in 1..Len(sg) |-> [i \in 1..Len(sg[p]) |-> hp[sg[p][i]]]]

RECURSIVE Flat(_)
Flat(sg) == IF sg = << >> THEN << >> ELSE Head(sg) \o Flat(Tail(sg))

Snapshot(t) == [bpm |-> t.bpm, step |-> t.step, steps |-> t.steps]

\* the lines the scanner has returned so far
ReadLines == 1..(pos - 1)

\* the song is finished: the loop is over and the open pattern is closed
Finished == pc = "render"

\* the loop is about to process a line
AtLine == pc = "scan" /\ pos <= Len(input)

LastReset ==
    IF \E i \in ReadLines : input[i] = LReset
    THEN CHOOSE i \in ReadLines :
             input[i] = LReset /\ \A j \in ReadLines : input[j] = LReset => j <= i
    ELSE 0

FirstEnd ==
    IF \E i \in 1..Len(input) : input[i] = LEnd
    THEN CHOOSE i \in 1..Len(input) :
             input[i] = LEnd /\ \A j \in 1..(i - 1) : input[j] # LEnd
    ELSE 0

IsReuse(line) == Kind(line) = "processor" /\ setProcessorPattern(line)[2] = << >>

\* a processor directive has succeeded since the file's start, the last ">>"
\* and the last pattern separator
Declared ==
    \E i \in ReadLines :
        /\ Kind(input[i]) = "processor"
        /\ \A j \in (i + 1)..(pos - 1) : Kind(input[j]) \notin {"reset", "separator"}

\* a blank or white-space-only line
Blank(line) == \A i \in 1..Len(line) : IsSpace(line[i])

-----------------------------------------------------------------------------
(* C1: a track of the finished song carries the bpm, step length and step *)
(* count that were the defaults when a processor directive bound it; no    *)
(* later directive changes them.                                           *)
C1_SnapshotFixedAtBind ==
    Finished =>
        \A i \in 1..Len(binds) :
            binds[i].id \in {Flat(song)[k] : k \in 1..Len(Flat(song))} =>
                Snapshot(heap[binds[i].id]) = Snapshot(binds[i])

(* C2: the tracks of the finished song, in pattern order, are one to one   *)
(* and in order the tracks bound by the successful processor directives    *)
(* read after the last ">>"; none is missing and none appears twice.       *)
C2_OneTrackPerDirective ==
    Finished =>
        LET b == SelectSeq(binds, LAMBDA e : e.line > LastReset)
            f == Flat(song)
        IN /\ Len(f) = Len(b)
           /\ \A k \in 1..Len(f) : f[k] = b[k].id
           /\ \A j, k \in 1..Len(f) : f[j] = f[k] => j = k

(* C3: a reuse directive with an open track creates a new track with empty *)
(* data lines and leaves the open track's object as it was.                *)
C3_ReuseCreatesNewTrack ==
    [][(AtLine /\ IsReuse(input[pos]) /\ track # NilTrack /\ pc' = "scan") =>
          /\ track' \notin DOMAIN heap
          /\ heap'[track'].data = {}
          /\ heap'[track] = heap[track]]_vars

(* C4: the track a successful processor directive creates clears iff the   *)
(* line begins with ":" (and accumulates iff it begins with "+"), for a    *)
(* reuse line as for a named one.                                          *)
C4_ClearFlagFromPrefix ==
    [][(AtLine /\ Kind(input[pos]) = "processor" /\ pc' = "scan") =>
          heap'[track'].clear = (input[pos][1] = ":")]_vars

(* C5: a reuse directive fails with the reuse error when no processor      *)
(* directive has succeeded since the file's start, the last ">>" and the   *)
(* last pattern separator.                                                 *)
C5_ReuseNeedsDeclaredTrack ==
    [][(AtLine /\ IsReuse(input[pos]) /\ ~Declared) =>
          /\ pc' = "exit"
          /\ err' = "attempt to reuse a processor which has not been defined"]_vars

(* C6: a data line fails with the data-line error when no processor        *)
(* directive has succeeded since the file's start, the last ">>" and the   *)
(* last pattern separator.                                                 *)
C6_DataNeedsDeclaredTrack ==
    [][(AtLine /\ Kind(input[pos]) = "data" /\ ~Declared) =>
          /\ pc' = "exit"
          /\ err' = "data line without track"]_vars

(* C7: right after a ">>" line the song, the pattern and the current track *)
(* are empty, and the finished song is the song the lines after the last   *)
(* ">>" build on their own under the defaults in effect at that ">>".      *)
C7_ResetDiscardsEarlier ==
    /\ (pc \in {"scan", "close"} /\ pos > 1 /\ input[pos - 1] = LReset) =>
           song = << >> /\ pattern = << >> /\ track = NilTrack
    /\ Finished =>
           LET before == RunLines(Fresh(entry), SubSeq(input, 1, LastReset))
               after == Finish(RunLines(Fresh(before),
                                        SubSeq(input, LastReset + 1, Len(input))))
           IN Deref(song, heap) = Deref(after.song, after.heap)

C7_Witness ==
    /\ Finished
    /\ song # << >>
    /\ \E i \in 1..Len(binds) : binds[i].line < LastReset

(* C8: each of bpm, sr, steps and step changes only in a step that         *)
(* processes a global-setting line for that field without error.           *)
Sets(k) ==
    /\ AtLine
    /\ Kind(input[pos]) = "global"
    /\ setGlobalPattern(input[pos])[1] = Keywords[k]
    /\ pc' = "scan"

C8_DefaultsChangeOnlyBySetting ==
    [][/\ bpm' # bpm => Sets(1)
       /\ sr' # sr => Sets(2)
       /\ steps' # steps => Sets(3)
       /\ step' # step => Sets(4)]_vars

C8_Witness ==
    /\ fileNo = 2
    /\ pc = "scan"
    /\ pos > 1
    /\ entry # [bpm |-> Frac(120, 1), sr |-> 48000, steps |-> 16, step |-> InitStep]
    /\ Defaults = entry

(* C9: when the file holds a "<<" line, the finished song, the defaults    *)
(* and the error are those of the file cut off before its first "<<".      *)
C9_NothingAfterSongEnd ==
    ((pc \in {"render", "exit"} /\ err \notin {"open", "failed to write"})
        /\ FirstEnd > 0) =>
        LET cut == Finish(RunLines(Fresh(entry), SubSeq(input, 1, FirstEnd - 1)))
        IN /\ err = cut.err
           /\ Defaults = [bpm |-> cut.bpm, sr |-> cut.sr,
                          steps |-> cut.steps, step |-> cut.step]
           /\ Finished => Deref(song, heap) = Deref(cut.song, cut.heap)

C9_Witness ==
    /\ Finished
    /\ song # << >>
    /\ FirstEnd > 0
    /\ \E i \in (FirstEnd + 1)..Len(input) : input[i] \in {LBadBpm, LUnknown}

(* C10: every blank or white-space-only line is a pattern separator: it    *)
(* closes an open pattern and resets the cursors, changes nothing when no  *)
(* pattern is open, stores no data line and raises no error.               *)
C10_BlankLineSeparates ==
    [][(AtLine /\ Blank(input[pos])) =>
          /\ pc' = "scan"
          /\ heap' = heap
          /\ IF pattern # << >>
             THEN song' = Append(song, pattern) /\ pattern' = << >>
                  /\ track' = NilTrack
             ELSE UNCHANGED <<song, pattern, track>>]_vars

(* C11: a line whose first character is ":" or "+" is a processor          *)
(* directive: it binds a track or fails with a processor error, and it is  *)
(* never stored as a data line of a track.                                 *)
ProcessorErrors ==
    {"attempt to reuse a processor which has not been defined",
     "cannot instantiate processor", "unknown processor"}

C11_ColonOrPlusIsProcessor ==
    [][(AtLine /\ Len(input[pos]) >= 1 /\ input[pos][1] \in {":", "+"}) =>
          /\ pc' \in {"scan", "exit"}
          /\ pc' = "scan" => Len(binds') = Len(binds) + 1
          /\ pc' = "exit" => err' \in ProcessorErrors
          /\ \A i \in DOMAIN heap : heap'[i].data \subseteq heap[i].data]_vars

(* C12: for a file without "<<" whose last line is blank, the error and    *)
(* the finished song are those of the file without that last line; and a   *)
(* blank line read right after a blank line changes nothing.               *)
EndsBlank ==
    /\ pc \in {"render", "exit"}
    /\ err \notin {"open", "failed to write"}
    /\ FirstEnd = 0
    /\ Len(input) >= 1
    /\ Blank(input[Len(input)])

SameAsWithoutLastLine ==
    LET short == Finish(RunLines(Fresh(entry), SubSeq(input, 1, Len(input) - 1)))
    IN /\ err = short.err
       /\ Finished => Deref(song, heap) = Deref(short.song, short.heap)

C12_EndOfInputSeparates ==
    [][/\ EndsBlank' => SameAsWithoutLastLine'
       /\ (AtLine /\ pos > 1 /\ Blank(input[pos]) /\ Blank(input[pos - 1])) =>
              pc' = "scan" /\ UNCHANGED <<song, pattern, track, heap>>]_vars

(* C13: for a track with bpm > 0, step > 0, steps >= 0 and sr > 0, Frames  *)
(* is floor((sr / (bpm / 60)) * step) * steps: one truncation, at the      *)
(* samples per step, before the multiplication by the step count; the      *)
(* result is not negative.                                                 *)
ValidTiming(t) ==
    /\ t.bpm.n > 0 /\ t.bpm.d > 0
    /\ t.step.n > 0 /\ t.step.d > 0
    /\ t.steps >= 0
    /\ sr > 0

C13_FramesFormula ==
    \A i \in DOMAIN heap :
        LET t == heap[i] IN
        ValidTiming(t) =>
            /\ Frames(t) = ((sr * 60 * t.bpm.d * t.step.n)
                               \div (t.bpm.n * t.step.d)) * t.steps
            /\ Frames(t) >= 0

C13_Witness ==
    \E i \in DOMAIN heap :
        LET t == heap[i] IN
        /\ ValidTiming(t)
        /\ t.steps > 1
        /\ (sr * 60 * t.bpm.d * t.step.n) % (t.bpm.n * t.step.d) # 0

(* C14: rendering a pattern renders all its tracks, and leaves in the      *)
(* scratch buffer the element-wise sum of what the tracks from the last    *)
(* clearing track onward contributed.                                      *)
RenderStep == pc = "render" /\ rp <= Len(song)

Contribution(t) == TrackProcess(t, NewSampleBuffer).samples

LastClear(tracks) ==
    IF \E i \in 1..Len(tracks) : heap[tracks[i]].clear
    THEN CHOOSE i \in 1..Len(tracks) :
             /\ heap[tracks[i]].clear
             /\ \A j \in (i + 1)..Len(tracks) : ~heap[tracks[j]].clear
    ELSE 1

RECURSIVE SumOf(_)
SumOf(cs) ==
    IF cs = << >> THEN << >>
    ELSE IF Len(cs) = 1 THEN cs[1]
    ELSE LET rest == SumOf(Tail(cs))
         IN [i \in 1..Len(cs[1]) |-> cs[1][i] + rest[i]]

ScratchSum(tracks) ==
    SumOf([k \in 1..(Len(tracks) - LastClear(tracks) + 1) |->
              Contribution(heap[tracks[LastClear(tracks) + k - 1]])])

C14_ScratchIsSumSinceClear ==
    [][RenderStep =>
          /\ pc' = "render"
          /\ rp' = rp + 1
          /\ samples' = ScratchSum(song[rp])]_vars

(* C15: pattern k is added to the song buffer at the offset nchannels      *)
(* times the sum of the frame counts of the patterns before it, where the  *)
(* frame count of a pattern is the largest Frames of its tracks, 0 if it   *)
(* has none.                                                               *)
RECURSIVE MaxFrames(_)
MaxFrames(tracks) ==
    IF tracks = << >> THEN 0
    ELSE LET f == Frames(heap[Head(tracks)])
             m == MaxFrames(Tail(tracks))
         IN IF f > m THEN f ELSE m

RECURSIVE Offset(_)
Offset(k) ==
    IF k <= 1 THEN 0 ELSE Offset(k - 1) + nchannels * MaxFrames(song[k - 1])

C15_WriteOffsetIsFrameSum ==
    [][RenderStep =>
          /\ pc' = "render"
          /\ writePos = Offset(rp)
          /\ writePos' = Offset(rp + 1)]_vars

(* C16: the processors contribute no sample other than zero, and the       *)
(* buffer handed to the encoder is all zeros, of length nchannels times    *)
(* the sum of the frame counts of the patterns.                            *)
C16_SilenceOfExpectedLength ==
    [][pc = "render" =>
          /\ pc' # "panic"
          /\ wav' # wav =>
                /\ Len(wav'.Data) = Offset(Len(song) + 1)
                /\ \A i \in 1..Len(wav'.Data) : wav'.Data[i] = 0]_vars

(* C17: every track of a finished song has a processor that can be         *)
(* invoked, and rendering never crashes.                                   *)
C17_RenderNeverFails ==
    /\ pc # "panic"
    /\ Finished =>
           \A p \in 1..Len(song) : \A i \in 1..Len(song[p]) :
               heap[song[p][i]].proc # NilProc

(* C18: when a pattern is added, the song buffer is at least as long as    *)
(* the write offset plus the scratch buffer, and the samples before the    *)
(* write offset keep their values.                                         *)
C18_SongBufferHoldsScratch ==
    [][RenderStep =>
          /\ pc' = "render"
          /\ Len(songSamples') >= writePos + Len(samples')
          /\ \A i \in 1..Len(songSamples) :
                 i <= writePos => songSamples'[i] = songSamples[i]]_vars

(* C19: the frame count of every track of the finished song is computed    *)
(* with the sample rate in effect when the loop over the lines ended, not  *)
(* with the one in effect when the track was bound, and the encoder gets   *)
(* that same sample rate.                                                  *)
EndSr == RunLines(Fresh(entry), input).sr

FramesAt(t, rate) ==
    Trunc(RatMul(RatDiv(Frac(rate, 1), RatDiv(t.bpm, Frac(60, 1))), t.step))
        * t.steps

C19_SampleRateIsSongWide ==
    /\ Finished =>
           \A p \in 1..Len(song) : \A i \in 1..Len(song[p]) :
               Frames(heap[song[p][i]]) = FramesAt(heap[song[p][i]], EndSr)
    /\ wav # NoWav => wav.SampleRate = EndSr

C19_Witness ==
    /\ Finished
    /\ \E k \in 1..Len(binds) :
           /\ binds[k].id \in {Flat(song)[j] : j \in 1..Len(Flat(song))}
           /\ binds[k].sr # sr
           /\ FramesAt(heap[binds[k].id], binds[k].sr) # Frames(heap[binds[k].id])

(* C20: before any global-setting line has been processed the defaults are *)
(* bpm 120, sr 48000, steps 16 and step 1/4, and a track bound under them  *)
(* has 6000 samples per step and 96000 frames.                             *)
NoSettingYet ==
    /\ fileNo = 1
    /\ \A i \in ReadLines : i <= Len(input) => Kind(input[i]) # "global"

C20_InitialDefaults ==
    NoSettingYet =>
        /\ bpm = Frac(120, 1)
        /\ sr = 48000
        /\ steps = 16
        /\ step = Frac(1, 4)
        /\ \A i \in DOMAIN heap :
               SamplesPerStep(heap[i]) = 6000 /\ Frames(heap[i]) = 96000

====
